---- MODULE Spec2Model ----
(***************************************************************************)
(* The Pepper plugin registry of chrome/common/pepper_plugin_registry.cc:  *)
(* the descriptor parser (ComputeBuiltInPlugins,                           *)
(* ComputePluginsFromCommandLine), the registry's constructor, its lookup  *)
(* and bookkeeping methods and its destructor.                             *)
(*                                                                         *)
(* A string is a sequence of characters; a fixed literal of the source is  *)
(* a sequence holding the literal as one symbol.  A PluginModule is known  *)
(* by its address, a number of ModuleIds; NULL is the null pointer.        *)
(***************************************************************************)
EXTENDS Integers, Sequences, FiniteSets, TLC

\* ------------------------------------------------------------- bounds

\* The number of addresses a PluginModule can be allocated at.
MaxModules == 3

\* The number of comma-separated entries of --register-pepper-plugins.
MaxEntries == 2

\* The number of '#'-separated fields and of mime types of the entries the
\* parser is given one at a time.
MaxFields == 5

MaxMimes == 2

\* The number of '.'-separated components of --ppapi-flash-version.
MaxVersionParts == 3

\* The longest descriptor list an environment of the model may declare.
MaxPlugins == 2

NULL == 0

ModuleIds == 1..MaxModules

\* ------------------------------------------------------------ strings

kWhitespace == {" "}

RECURSIVE TrimLeft(_)
TrimLeft(s) ==
  IF s # <<>> /\ Head(s) \in kWhitespace THEN TrimLeft(Tail(s)) ELSE s

RECURSIVE TrimRight(_)
TrimRight(s) ==
  IF s # <<>> /\ s[Len(s)] \in kWhitespace
    THEN TrimRight(SubSeq(s, 1, Len(s) - 1))
    ELSE s

TrimWhitespace(s) == TrimRight(TrimLeft(s))

\* base::SplitString(str, s, &r): the loop runs i over 0..size, cutting a
\* piece at every delimiter and at the end of the string, so the empty string
\* gives one empty piece; every piece is trimmed of white space.
\* Here i and last are 1-based.
RECURSIVE SplitFrom(_, _, _, _, _)
SplitFrom(str, s, i, last, r) ==
  IF i > Len(str) + 1 THEN r
  ELSE IF i = Len(str) + 1 \/ str[i] = s
    THEN SplitFrom(str, s, i + 1, i + 1,
                   Append(r, TrimWhitespace(SubSeq(str, last, i - 1))))
    ELSE SplitFrom(str, s, i + 1, last, r)

SplitString(str, s) == SplitFrom(str, s, 1, 1, <<>>)

RECURSIVE JoinString(_, _)
JoinString(parts, sep) ==
  IF parts = <<>> THEN <<>>
  ELSE IF Len(parts) = 1 THEN parts[1]
  ELSE parts[1] \o <<sep>> \o JoinString(Tail(parts), sep)

\* The order of FilePath (and of std::map<FilePath, ...>): the order of the
\* underlying strings, character by character.
Alphabet == <<" ", "#", ",", ".", "0", "1", "2", "9", ";",
              "a", "i", "m", "n", "p", "x", "y">>

Ord(c) == CHOOSE k \in 1..Len(Alphabet) : Alphabet[k] = c

RECURSIVE PathLess(_, _)
PathLess(a, b) ==
  IF b = <<>> THEN FALSE
  ELSE IF a = <<>> THEN TRUE
  ELSE IF Head(a) = Head(b) THEN PathLess(Tail(a), Tail(b))
  ELSE Ord(Head(a)) < Ord(Head(b))

\* ---------------------------------------------------- program constants

kPDFPluginName == <<"Chrome PDF Viewer">>
kPDFPluginMimeType == <<"application/pdf">>
kPDFPluginExtension == <<"pdf">>
kPDFPluginDescription == <<"Portable Document Format">>

kNaClPluginName == <<"Chrome NaCl">>
kNaClPluginMimeType == <<"application/x-nacl">>
kNaClPluginExtension == <<"nexe">>
kNaClPluginDescription == <<"Native Client Executable">>

kRemotingPluginMimeType == <<"pepper-application/x-chromoting">>

kFlashPluginName == <<"Shockwave Flash">>
kFlashPluginSwfMimeType == <<"application/x-shockwave-flash">>
kFlashPluginSwfExtension == <<"swf">>
kFlashPluginSwfDescription == <<"Shockwave Flash">>
kFlashPluginSplMimeType == <<"application/futuresplash">>
kFlashPluginSplExtension == <<"spl">>
kFlashPluginSplDescription == <<"FutureSplash Player">>

\* The paths PathService::Get gives for chrome::FILE_PDF_PLUGIN and
\* chrome::FILE_NACL_PLUGIN, and the path of the internal remoting plugin
\* ("internal-chromoting"), each shortened to one character.
FILE_PDF_PLUGIN == <<"p">>
FILE_NACL_PLUGIN == <<"n">>
kInternalChromoting == <<"i">>

\* ------------------------------------------------------------- values

WebPluginMimeType(m, ext, desc) ==
  [mime_type |-> m, file_extensions |-> ext, description |-> desc]

\* PepperPluginInfo::PepperPluginInfo(): both flags false, the strings empty.
PepperPluginInfo ==
  [path |-> <<>>, name |-> <<>>, description |-> <<>>, version |-> <<>>,
   mime_types |-> <<>>, is_internal |-> FALSE, is_out_of_process |-> FALSE]

\* ------------------------------------------------------ descriptor parser

\* ComputeBuiltInPlugins(plugins), with its two function-local statics passed
\* in and returned. exists is the set of paths file_util::PathExists finds;
\* remoting is the kEnableRemoting switch of a build with ENABLE_REMOTING.
\* PathService::Get succeeds for both keys: the paths are registered at startup.
PdfPluginInfo ==
  [PepperPluginInfo EXCEPT
     !.path = FILE_PDF_PLUGIN,
     !.name = kPDFPluginName,
     !.mime_types = <<WebPluginMimeType(kPDFPluginMimeType, kPDFPluginExtension,
                                        kPDFPluginDescription)>>]

NaClPluginInfo ==
  [PepperPluginInfo EXCEPT
     !.path = FILE_NACL_PLUGIN,
     !.name = kNaClPluginName,
     !.mime_types = <<WebPluginMimeType(kNaClPluginMimeType, kNaClPluginExtension,
                                        kNaClPluginDescription)>>]

RemotingPluginInfo ==
  [PepperPluginInfo EXCEPT
     !.is_internal = TRUE,
     !.path = kInternalChromoting,
     !.mime_types = <<WebPluginMimeType(kRemotingPluginMimeType, <<>>, <<>>)>>]

\* ComputeBuiltInPlugins with no statics: the files are looked for each time.
ComputeBuiltInPluginsUncached(plugins, skip_pdf, skip_nacl, exists, remoting) ==
  LET p1 == IF FILE_PDF_PLUGIN \in exists
              THEN Append(plugins, PdfPluginInfo) ELSE plugins
      p2 == IF FILE_NACL_PLUGIN \in exists
              THEN Append(p1, NaClPluginInfo) ELSE p1
      p3 == IF remoting THEN Append(p2, RemotingPluginInfo) ELSE p2
  IN [plugins |-> p3,
      skip_pdf_file_check |-> FALSE,
      skip_nacl_file_check |-> FALSE,
      path_exists_calls |-> {FILE_PDF_PLUGIN, FILE_NACL_PLUGIN}]

\* ComputeBuiltInPlugins setting its statics once the files were looked for,
\* whatever the answer was.
ComputeBuiltInPluginsCheckedOnce(plugins, skip_pdf, skip_nacl, exists, remoting) ==
  LET pdf == skip_pdf \/ FILE_PDF_PLUGIN \in exists
      p1 == IF pdf THEN Append(plugins, PdfPluginInfo) ELSE plugins
      nacl == skip_nacl \/ FILE_NACL_PLUGIN \in exists
      p2 == IF nacl THEN Append(p1, NaClPluginInfo) ELSE p1
      p3 == IF remoting THEN Append(p2, RemotingPluginInfo) ELSE p2
  IN [plugins |-> p3,
      skip_pdf_file_check |-> TRUE,
      skip_nacl_file_check |-> TRUE,
      path_exists_calls |-> {p \in {FILE_PDF_PLUGIN} : ~skip_pdf}
                              \cup {p \in {FILE_NACL_PLUGIN} : ~skip_nacl}]

ComputeBuiltInPlugins(plugins, skip_pdf, skip_nacl, exists, remoting) ==
  LET pdf == skip_pdf \/ FILE_PDF_PLUGIN \in exists
      p1 == IF pdf THEN Append(plugins, PdfPluginInfo) ELSE plugins
      nacl == skip_nacl \/ FILE_NACL_PLUGIN \in exists
      p2 == IF nacl THEN Append(p1, NaClPluginInfo) ELSE p1
      p3 == IF remoting THEN Append(p2, RemotingPluginInfo) ELSE p2
  IN [plugins |-> p3,
      skip_pdf_file_check |-> (skip_pdf \/ pdf),
      skip_nacl_file_check |-> (skip_nacl \/ nacl),
      \* skip || PathExists(path): PathExists is called when skip is false
      path_exists_calls |-> {p \in {FILE_PDF_PLUGIN} : ~skip_pdf}
                              \cup {p \in {FILE_NACL_PLUGIN} : ~skip_nacl}]

\* The padding of the Pepper Flash version to four components.
FlashVersionNumbers(flash_version) ==
  LET v0 == SplitString(flash_version, ".")
      v1 == IF Len(v0) < 1 THEN Append(v0, <<"1", "0">>)
            ELSE IF v0[1] = <<>> THEN [v0 EXCEPT ![1] = <<"1", "0">>]
            ELSE v0
      v2 == IF Len(v1) < 2 THEN Append(v1, <<"2">>) ELSE v1
      v3 == IF Len(v2) < 3 THEN Append(v2, <<"9", "9", "9">>) ELSE v2
      v4 == IF Len(v3) < 4 THEN Append(v3, <<"9", "9", "9">>) ELSE v3
  IN v4

\* The Pepper Flash plugin with the last version number in its description
\* where the third belongs.
FlashPluginInfoBuildFromLast(flash_path, flash_version, out_of_process) ==
  LET v == FlashVersionNumbers(flash_version)
  IN [PepperPluginInfo EXCEPT
        !.is_out_of_process = out_of_process,
        !.path = flash_path,
        !.name = kFlashPluginName,
        !.description = kFlashPluginName \o <<" ">> \o v[1] \o <<".">> \o v[2]
                          \o <<" r">> \o v[Len(v)],
        !.version = JoinString(v, "."),
        !.mime_types =
          <<WebPluginMimeType(kFlashPluginSwfMimeType, kFlashPluginSwfExtension,
                              kFlashPluginSwfDescription),
            WebPluginMimeType(kFlashPluginSplMimeType, kFlashPluginSplExtension,
                              kFlashPluginSplDescription)>>]

\* The Pepper Flash plugin without plugin.is_out_of_process = out_of_process:
\* the descriptor keeps the constructor's false.
FlashPluginInfoInProcess(flash_path, flash_version, out_of_process) ==
  LET v == FlashVersionNumbers(flash_version)
  IN [PepperPluginInfo EXCEPT
        !.path = flash_path,
        !.name = kFlashPluginName,
        !.description = kFlashPluginName \o <<" ">> \o v[1] \o <<".">> \o v[2]
                          \o <<" r">> \o v[3],
        !.version = JoinString(v, "."),
        !.mime_types =
          <<WebPluginMimeType(kFlashPluginSwfMimeType, kFlashPluginSwfExtension,
                              kFlashPluginSwfDescription),
            WebPluginMimeType(kFlashPluginSplMimeType, kFlashPluginSplExtension,
                              kFlashPluginSplDescription)>>]

FlashPluginInfo(flash_path, flash_version, out_of_process) ==
  LET v == FlashVersionNumbers(flash_version)
  IN [PepperPluginInfo EXCEPT
        !.is_out_of_process = out_of_process,
        !.path = flash_path,
        !.name = kFlashPluginName,
        !.description = kFlashPluginName \o <<" ">> \o v[1] \o <<".">> \o v[2]
                          \o <<" r">> \o v[3],
        !.version = JoinString(v, "."),
        !.mime_types =
          <<WebPluginMimeType(kFlashPluginSwfMimeType, kFlashPluginSwfExtension,
                              kFlashPluginSwfDescription),
            WebPluginMimeType(kFlashPluginSplMimeType, kFlashPluginSplExtension,
                              kFlashPluginSplDescription)>>]

\* The body of the loop taking the description where the version is and the
\* name where the description is.
PluginInfoFromPartsShiftedFields(parts, out_of_process) ==
  LET name_parts == SplitString(parts[1], "#")
      description == IF Len(name_parts) > 3 THEN name_parts[4] ELSE <<>>
  IN [PepperPluginInfo EXCEPT
        !.is_out_of_process = out_of_process,
        !.path = name_parts[1],
        !.name = IF Len(name_parts) > 2 THEN name_parts[3] ELSE <<>>,
        !.description = description,
        !.version = IF Len(name_parts) > 1 THEN name_parts[2] ELSE <<>>,
        !.mime_types =
          [j \in 1..(Len(parts) - 1) |->
             WebPluginMimeType(parts[j + 1], <<>>, description)]]

\* One entry of --register-pepper-plugins that has its mime type: the body of
\* the loop after the parts.size() < 2 test.
PluginInfoFromParts(parts, out_of_process) ==
  LET name_parts == SplitString(parts[1], "#")
      description == IF Len(name_parts) > 2 THEN name_parts[3] ELSE <<>>
  IN [PepperPluginInfo EXCEPT
        !.is_out_of_process = out_of_process,
        !.path = name_parts[1],
        !.name = IF Len(name_parts) > 1 THEN name_parts[2] ELSE <<>>,
        !.description = description,
        !.version = IF Len(name_parts) > 3 THEN name_parts[4] ELSE <<>>,
        !.mime_types =
          [j \in 1..(Len(parts) - 1) |->
             WebPluginMimeType(parts[j + 1], <<>>, description)]]

\* The loop leaving at the first entry with no mime type: break for continue.
RECURSIVE PluginsFromModulesStoppingAtBad(_, _, _, _)
PluginsFromModulesStoppingAtBad(modules, i, out_of_process, plugins) ==
  IF i > Len(modules) THEN plugins
  ELSE LET parts == SplitString(modules[i], ";")
       IN IF Len(parts) < 2
            THEN plugins
            ELSE PluginsFromModulesStoppingAtBad(modules, i + 1, out_of_process,
                   Append(plugins, PluginInfoFromParts(parts, out_of_process)))

\* The loop with plugins->push_back(plugin) inside the loop over the mime
\* types: one descriptor for each mime type of the entry.
RECURSIVE PluginsFromModulesPushingPerMimeType(_, _, _, _)
PluginsFromModulesPushingPerMimeType(modules, i, out_of_process, plugins) ==
  IF i > Len(modules) THEN plugins
  ELSE LET parts == SplitString(modules[i], ";")
       IN IF Len(parts) < 2
            THEN PluginsFromModulesPushingPerMimeType(modules, i + 1,
                   out_of_process, plugins)
            ELSE PluginsFromModulesPushingPerMimeType(modules, i + 1,
                   out_of_process,
                   plugins \o [j \in 1..(Len(parts) - 1) |->
                                 PluginInfoFromParts(parts, out_of_process)])

\* The loop over the comma-separated entries, from entry i on.
RECURSIVE PluginsFromModules(_, _, _, _)
PluginsFromModules(modules, i, out_of_process, plugins) ==
  IF i > Len(modules) THEN plugins
  ELSE LET parts == SplitString(modules[i], ";")
       IN IF Len(parts) < 2
            THEN PluginsFromModules(modules, i + 1, out_of_process, plugins)
            ELSE PluginsFromModules(modules, i + 1, out_of_process,
                   Append(plugins, PluginInfoFromParts(parts, out_of_process)))

\* ComputePluginsFromCommandLine handling the Pepper Flash plugin last.
ComputePluginsFromCommandLineFlashLast(plugins, cl) ==
  LET p1 == IF cl.value = <<>> THEN plugins
            ELSE PluginsFromModules(SplitString(cl.value, ","), 1,
                                    cl.out_of_process, plugins)
  IN IF cl.flash_path # <<>>
       THEN Append(p1, FlashPluginInfo(cl.flash_path, cl.flash_version,
                                       cl.out_of_process))
       ELSE p1

\* ComputePluginsFromCommandLine(plugins); cl is the command line of the
\* process: the switches kPpapiOutOfProcess, kPpapiFlashPath,
\* kPpapiFlashVersion and kRegisterPepperPlugins.
ComputePluginsFromCommandLine(plugins, cl) ==
  LET p1 == IF cl.flash_path # <<>>
              THEN Append(plugins, FlashPluginInfo(cl.flash_path, cl.flash_version,
                                                   cl.out_of_process))
              ELSE plugins
  IN IF cl.value = <<>> THEN p1
     ELSE PluginsFromModules(SplitString(cl.value, ","), 1, cl.out_of_process, p1)

\* ComputeList taking the command line's plugins before the built-in ones.
ComputeListCommandLineFirst(plugins, skip_pdf, skip_nacl, exists, cl) ==
  LET b == ComputeBuiltInPlugins(ComputePluginsFromCommandLine(plugins, cl),
                                 skip_pdf, skip_nacl, exists, cl.enable_remoting)
  IN b

\* PepperPluginRegistry::ComputeList(plugins).
ComputeList(plugins, skip_pdf, skip_nacl, exists, cl) ==
  LET b == ComputeBuiltInPlugins(plugins, skip_pdf, skip_nacl, exists,
                                 cl.enable_remoting)
  IN [b EXCEPT !.plugins = ComputePluginsFromCommandLine(b.plugins, cl)]

\* ------------------------------------------------------------- state

VARIABLES
  cl,                     \* CommandLine::ForCurrentProcess(): the switches read
  exists,                 \* the paths file_util::PathExists finds
  unloadable,             \* the paths base::LoadNativeLibrary gives no library for
  dcheck_is_on,           \* a debug build: DCHECK and NOTREACHED are fatal
  skip_pdf_file_check,    \* the statics of ComputeBuiltInPlugins
  skip_nacl_file_check,
  plugin_list_,           \* std::vector<PepperPluginInfo>
  preloaded_modules_,     \* OwningModuleMap: pairs <<path, module>>
  live_modules_,          \* NonOwningModuleMap: pairs <<path, module>>
  pc,                     \* where the registry is in its life
  i,                      \* the constructor's loop index (1-based)
  module,                 \* the constructor's scoped_refptr, NULL outside the loop body
  alive,                  \* the PluginModules constructed and not yet destroyed
  ext_refs,               \* the PluginModules a caller outside the registry holds a reference to
  violations,             \* the assertions reached with their condition false
  \* What has happened so far, for the properties to speak of:
  registered,             \* <<path, m>>: m was registered under path and has not died
                          \* since; NoHistory when this history is not kept
  loaded,                 \* the indices of the descriptors whose init returned true
  ever_preloaded,         \* the paths the preloaded map has held
  teardown_clean,         \* the destructor was entered with no module of a caller's around
  \* The static methods and what they leave behind:
  registry,               \* the static pointer of GetInstance: NULL, or the registry made
  instances,              \* the number of PepperPluginRegistry objects constructed so far
  returned,               \* <<r>>: a call of GetInstance after the first has returned
                          \* the pointer r; NoHistory when this history is not kept
  plugins,                \* the vector of the last call of PreloadModules
  libraries,              \* the loads that call asked base::LoadNativeLibrary for, in order:
                          \* the path, and whether a library came back
  path_exists_calls,      \* the paths the last ComputeList gave file_util::PathExists
  found_present           \* the paths file_util::PathExists has returned true for

vars == <<cl, exists, unloadable, dcheck_is_on, skip_pdf_file_check, skip_nacl_file_check,
          plugin_list_, preloaded_modules_, live_modules_, pc, i, module,
          alive, ext_refs, violations, registered, loaded, ever_preloaded,
          teardown_clean, registry, instances, returned, plugins, libraries,
          path_exists_calls, found_present>>

environment == <<cl, exists, unloadable, dcheck_is_on>>

statics == <<skip_pdf_file_check, skip_nacl_file_check>>

checks == <<path_exists_calls, found_present>>

preload == <<plugins, libraries>>

accessor == <<registry, instances, returned>>

\* --------------------------------------------------------- std::map

\* map.find(key) != map.end()
MapHas(map, key) == \E e \in map : e[1] = key

\* map.find(key)->second, NULL when there is no such key
MapFind(map, key) ==
  IF MapHas(map, key) THEN (CHOOSE e \in map : e[1] = key)[2] ELSE NULL

\* A map that keeps the element it had for the key beside the new one.
MapAssignKeepingOld(map, key, value) == map \cup {<<key, value>>}

\* map[key] = value
MapAssign(map, key, value) == {e \in map : e[1] # key} \cup {<<key, value>>}

MapKeys(map) == {e[1] : e \in map}

MapValues(map) == {e[2] : e \in map}

\* ------------------------------------------------------- the inputs

\* The entries --register-pepper-plugins is made of: one with the path of the
\* built-in PDF plugin and a mime type, and one with no mime type.
EntryPool == {<<"p", ";", "m">>, <<"x">>}

SwitchValues ==
  {JoinString(es, ",") :
     es \in UNION {[1..n -> EntryPool] : n \in 0..MaxEntries}}

FlashPaths == {<<>>, <<"x">>}

FlashVersions == {<<>>}

CommandLines ==
  [out_of_process : BOOLEAN, enable_remoting : BOOLEAN,
   flash_path : FlashPaths, flash_version : FlashVersions, value : SwitchValues]

\* The paths callers outside the registry load modules for.
ExternalPaths == {FILE_PDF_PLUGIN, <<"x">>}

\* The history of the registrations is kept under SpecHistory alone, that of
\* the calls of GetInstance under SpecAccessor alone.
NoHistory == {<<>>}

InitProgram ==
  /\ cl \in CommandLines
  /\ exists \in SUBSET {FILE_PDF_PLUGIN, FILE_NACL_PLUGIN}
  /\ Len(ComputeList(<<>>, FALSE, FALSE, exists, cl).plugins) <= MaxPlugins
  /\ dcheck_is_on \in BOOLEAN
  /\ skip_pdf_file_check = FALSE
  /\ skip_nacl_file_check = FALSE
  /\ plugin_list_ = <<>>
  /\ preloaded_modules_ = {}
  /\ live_modules_ = {}
  /\ pc = "start"
  /\ i = 0
  /\ module = NULL
  /\ alive = {}
  /\ ext_refs = {}
  /\ violations = {}
  /\ loaded = {}
  /\ ever_preloaded = {}
  /\ teardown_clean = FALSE
  /\ registry = NULL
  /\ instances = 0
  /\ plugins = <<>>
  /\ libraries = <<>>
  /\ path_exists_calls = {}
  /\ found_present = {}

Init ==
  /\ InitProgram
  /\ unloadable = {}
  /\ registered = NoHistory
  /\ returned = NoHistory

InitHistory ==
  /\ InitProgram
  /\ unloadable = {}
  /\ registered = {}
  /\ returned = NoHistory

InitAccessor ==
  /\ InitProgram
  /\ unloadable = {}
  /\ registered = NoHistory
  /\ returned = {}

\* The program before the registry, with a loader that fails on any of the
\* files.
InitPreload ==
  /\ InitProgram
  /\ unloadable \in SUBSET ExternalPaths
  /\ registered = NoHistory
  /\ returned = NoHistory

\* The command lines the descriptor parser is run on by itself: one entry of
\* every shape the grammar gives and some it does not, several entries of
\* which some have no mime type, and a Pepper Flash path with its version.
FieldPool == {<<"a">>, <<>>}

MimePool == {<<"m">>, <<"n", " ">>}

FieldSeqs == UNION {[1..n -> FieldPool] : n \in 1..MaxFields}

MimeSeqs == UNION {[1..n -> MimePool] : n \in 0..MaxMimes}

RichEntries ==
  {JoinString(<<JoinString(fs, "#")>> \o ms, ";") :
     fs \in FieldSeqs, ms \in MimeSeqs}

ParserEntryPool ==
  {<<"p", ";", "m">>, <<"x">>, <<>>, <<";", "m">>,
   <<" ", "a", "#", "y", " ", ";", "m", ";", "n">>}

ParserValues ==
  RichEntries
    \cup {JoinString(es, ",") :
            es \in UNION {[1..n -> ParserEntryPool] : n \in 0..MaxEntries}}

VersionPartPool == {<<>>, <<"1", "1">>, <<"5">>}

ParserFlashVersions ==
  {JoinString(vs, ".") :
     vs \in UNION {[1..n -> VersionPartPool] : n \in 0..MaxVersionParts}}

ParserCommandLines ==
  [out_of_process : BOOLEAN, enable_remoting : {FALSE},
   flash_path : {<<>>}, flash_version : {<<>>}, value : ParserValues]
    \cup [out_of_process : BOOLEAN, enable_remoting : BOOLEAN,
          flash_path : {<<"x">>}, flash_version : ParserFlashVersions,
          value : {<<>>, <<"p", ";", "m">>, <<"x">>}]

InitParser ==
  /\ cl \in ParserCommandLines
  /\ exists \in SUBSET {FILE_PDF_PLUGIN, FILE_NACL_PLUGIN}
  /\ unloadable = {}
  /\ dcheck_is_on = TRUE
  /\ skip_pdf_file_check = FALSE
  /\ skip_nacl_file_check = FALSE
  /\ plugin_list_ = <<>>
  /\ preloaded_modules_ = {}
  /\ live_modules_ = {}
  /\ pc = "start"
  /\ i = 0
  /\ module = NULL
  /\ alive = {}
  /\ ext_refs = {}
  /\ violations = {}
  /\ registered = NoHistory
  /\ loaded = {}
  /\ ever_preloaded = {}
  /\ teardown_clean = FALSE
  /\ registry = NULL
  /\ instances = 0
  /\ returned = NoHistory
  /\ plugins = <<>>
  /\ libraries = <<>>
  /\ path_exists_calls = {}
  /\ found_present = {}

\* ------------------------------------------------- registry methods

\* GetInfoForPlugin(path): the index of the descriptor returned, 0 for NULL.
RECURSIVE InfoIndexFrom(_, _, _)
InfoIndexFrom(list, path, k) ==
  IF k > Len(list) THEN 0
  ELSE IF path = list[k].path THEN k
  ELSE InfoIndexFrom(list, path, k + 1)

GetInfoForPlugin(path) == InfoIndexFrom(plugin_list_, path, 1)

\* GetLiveModule(path)
GetLiveModule(path) == MapFind(live_modules_, path)

\* AddLiveModule without its DCHECK.
AddLiveModuleUnchecked(path, m, next) ==
  /\ pc' = next
  /\ live_modules_' = MapAssign(live_modules_, path, m)
  /\ registered' = IF registered = NoHistory THEN NoHistory
                   ELSE registered \cup {<<path, m>>}
  /\ UNCHANGED violations

\* AddLiveModule(path, module), control going to next when it returns.
AddLiveModule(path, m, next) ==
  LET ok == ~MapHas(live_modules_, path)    \* the DCHECK's condition
  IN /\ violations' = IF ok THEN violations ELSE violations \cup {"AddLiveModule"}
     /\ IF ~ok /\ dcheck_is_on
          THEN pc' = "aborted" /\ UNCHANGED live_modules_
          ELSE pc' = next /\ live_modules_' = MapAssign(live_modules_, path, m)
     /\ registered' = IF registered = NoHistory THEN NoHistory
                      ELSE registered \cup {<<path, m>>}

\* PluginModuleDead finding the module and leaving its entry where it is.
PluginModuleDeadKeepingEntry(dead_module, next) ==
  /\ registered' = IF registered = NoHistory THEN NoHistory
                   ELSE {e \in registered : e[2] # dead_module}
  /\ pc' = next
  /\ UNCHANGED <<live_modules_, violations>>

\* PluginModuleDead erasing every entry of the map with the one it found.
PluginModuleDeadClearingMap(dead_module, next) ==
  /\ registered' = IF registered = NoHistory THEN NoHistory
                   ELSE {e \in registered : e[2] # dead_module}
  /\ IF dead_module \in MapValues(live_modules_)
       THEN /\ live_modules_' = {}
            /\ pc' = next
            /\ UNCHANGED violations
       ELSE /\ violations' = violations \cup {"PluginModuleDead"}
            /\ pc' = IF dcheck_is_on THEN "aborted" ELSE next
            /\ UNCHANGED live_modules_

\* The entry PluginModuleDead erases: the first in the map's order whose value
\* is dead_module.
FirstEntryOf(dead_module) ==
  LET found == {e \in live_modules_ : e[2] = dead_module}
  IN CHOOSE e \in found : \A f \in found \ {e} : PathLess(e[1], f[1])

\* PluginModuleDead setting the entry it found to NULL and leaving the path
\* in the map.
PluginModuleDeadNullingEntry(dead_module, next) ==
  /\ registered' = IF registered = NoHistory THEN NoHistory
                   ELSE {e \in registered : e[2] # dead_module}
  /\ IF dead_module \in MapValues(live_modules_)
       THEN /\ live_modules_' = (live_modules_ \ {FirstEntryOf(dead_module)})
                                   \cup {<<FirstEntryOf(dead_module)[1], NULL>>}
            /\ pc' = next
            /\ UNCHANGED violations
       ELSE /\ violations' = violations \cup {"PluginModuleDead"}
            /\ pc' = IF dcheck_is_on THEN "aborted" ELSE next
            /\ UNCHANGED live_modules_

\* PluginModuleDead(dead_module), control going to next when it returns.
PluginModuleDead(dead_module, next) ==
  /\ registered' = IF registered = NoHistory THEN NoHistory
                   ELSE {e \in registered : e[2] # dead_module}
  /\ IF dead_module \in MapValues(live_modules_)
       THEN /\ live_modules_' = live_modules_ \ {FirstEntryOf(dead_module)}
            /\ pc' = next
            /\ UNCHANGED violations
       ELSE /\ violations' = violations \cup {"PluginModuleDead"}
            /\ pc' = IF dcheck_is_on THEN "aborted" ELSE next
            /\ UNCHANGED live_modules_

\* The addresses operator new may give the next PluginModule: any address no
\* module is at. The free addresses nothing points to are interchangeable, and
\* the lowest stands for them all; a free address the live map still holds (a
\* stale pointer) is told apart from them.
NewAddresses ==
  LET free == ModuleIds \ alive
      stale == free \cap MapValues(live_modules_)
      fresh == free \ stale
  IN stale \cup {m \in fresh : \A n \in fresh : m <= n}

\* ~PluginModule of module m, run when its last reference goes: it tells the
\* registry it was made for.
ModuleDestroyed(m, next) ==
  /\ alive' = alive \ {m}
  /\ PluginModuleDead(m, next)

\* ---------------------------------------------------- the constructor

\* GetInstance(), the first call: new PepperPluginRegistry, whose constructor
\* starts with ComputeList(&plugin_list_).
GetInstance ==
  /\ pc = "start"
  /\ registry = NULL
  /\ instances' = instances + 1
  /\ LET c == ComputeList(<<>>, skip_pdf_file_check, skip_nacl_file_check,
                          exists, cl)
     IN /\ plugin_list_' = c.plugins
        /\ skip_pdf_file_check' = c.skip_pdf_file_check
        /\ skip_nacl_file_check' = c.skip_nacl_file_check
        /\ path_exists_calls' = c.path_exists_calls
        /\ found_present' = found_present \cup (c.path_exists_calls \cap exists)
  /\ i' = 1
  /\ pc' = "ctor"
  /\ UNCHANGED <<environment, preloaded_modules_, live_modules_, module, alive,
                 ext_refs, violations, registered, loaded, ever_preloaded,
                 teardown_clean, registry, returned, preload>>

\* A call of GetInstance() that makes a registry again although there is one.
GetInstanceConstructingAgain ==
  /\ pc = "live"
  /\ instances' = instances + 1
  /\ registry' = instances'
  /\ plugin_list_' = ComputeList(<<>>, skip_pdf_file_check, skip_nacl_file_check,
                                 exists, cl).plugins
  /\ returned' = IF returned = NoHistory THEN NoHistory
                 ELSE returned \cup {<<registry'>>}
  /\ UNCHANGED <<environment, statics, checks, preload, preloaded_modules_,
                 live_modules_, pc, i, module, alive, ext_refs, violations,
                 registered, loaded, ever_preloaded, teardown_clean>>

\* GetInstance(), a later call: registry is not NULL and is returned.
GetInstanceAgain ==
  /\ pc = "live"
  /\ registry # NULL
  /\ returned' = IF returned = NoHistory THEN NoHistory
                 ELSE returned \cup {<<registry>>}
  /\ UNCHANGED <<environment, statics, checks, preload, registry, instances,
                 plugin_list_, preloaded_modules_, live_modules_, pc, i, module,
                 alive, ext_refs, violations, registered, loaded,
                 ever_preloaded, teardown_clean>>

\* The loop's test failing: the constructor returns.
CtorReturn ==
  /\ pc = "ctor"
  /\ i > Len(plugin_list_)
  /\ pc' = "live"
  /\ registry' = instances     \* registry = new PepperPluginRegistry
  /\ UNCHANGED <<environment, statics, checks, preload, instances, returned,
                 plugin_list_, preloaded_modules_, live_modules_, i, module, alive, ext_refs,
                 violations, registered, loaded, ever_preloaded, teardown_clean>>

\* if (current.is_out_of_process) continue;
CtorSkipOutOfProcess ==
  /\ pc = "ctor"
  /\ i <= Len(plugin_list_)
  /\ plugin_list_[i].is_out_of_process
  /\ i' = i + 1
  /\ UNCHANGED <<environment, statics, checks, preload, accessor, plugin_list_, preloaded_modules_,
                 live_modules_, pc, module, alive, ext_refs, violations,
                 registered, loaded, ever_preloaded, teardown_clean>>

\* The loop body without its test of is_out_of_process.
CtorNewModuleForAny(m) ==
  /\ pc = "ctor"
  /\ i <= Len(plugin_list_)
  /\ m \in NewAddresses
  /\ alive' = alive \cup {m}
  /\ module' = m
  /\ AddLiveModule(plugin_list_[i].path, m, "ctor_init")
  /\ UNCHANGED <<environment, statics, checks, preload, accessor, plugin_list_, preloaded_modules_, i,
                 ext_refs, loaded, ever_preloaded, teardown_clean>>

\* The loop body making the module and not registering it: AddLiveModule is
\* left for after the init.
CtorNewModuleUnregistered(m) ==
  /\ pc = "ctor"
  /\ i <= Len(plugin_list_)
  /\ ~plugin_list_[i].is_out_of_process
  /\ m \in NewAddresses
  /\ alive' = alive \cup {m}
  /\ module' = m
  /\ pc' = "ctor_init"
  /\ UNCHANGED <<environment, statics, checks, preload, accessor, plugin_list_,
                 preloaded_modules_, live_modules_, i, ext_refs, violations,
                 registered, loaded, ever_preloaded, teardown_clean>>

\* module = new PluginModule(current.name, this), at address m;
\* AddLiveModule(current.path, module).
CtorNewModule(m) ==
  /\ pc = "ctor"
  /\ i <= Len(plugin_list_)
  /\ ~plugin_list_[i].is_out_of_process
  /\ m \in NewAddresses
  /\ alive' = alive \cup {m}
  /\ module' = m
  /\ AddLiveModule(plugin_list_[i].path, m, "ctor_init")
  /\ UNCHANGED <<environment, statics, checks, preload, accessor, plugin_list_, preloaded_modules_, i,
                 ext_refs, loaded, ever_preloaded, teardown_clean>>

\* A failed init whose module is never destroyed.
CtorInitFailedKeepingModule(internal) ==
  /\ pc = "ctor_init"
  /\ plugin_list_[i].is_internal = internal
  /\ pc' = "ctor"
  /\ module' = NULL
  /\ i' = i + 1
  /\ UNCHANGED <<environment, statics, checks, preload, accessor, plugin_list_, preloaded_modules_,
                 live_modules_, alive, ext_refs, violations, registered, loaded,
                 ever_preloaded, teardown_clean>>

\* A failed init that also drops the descriptor from the list.
CtorInitFailedDroppingDescriptor(internal) ==
  /\ pc = "ctor_init"
  /\ plugin_list_[i].is_internal = internal
  /\ ModuleDestroyed(module, "ctor")
  /\ module' = NULL
  /\ plugin_list_' = SubSeq(plugin_list_, 1, i - 1)
                       \o SubSeq(plugin_list_, i + 1, Len(plugin_list_))
  /\ UNCHANGED <<environment, statics, checks, preload, accessor, preloaded_modules_, i, ext_refs, loaded,
                 ever_preloaded, teardown_clean>>

\* InitAsInternalPlugin or InitAsLibrary returns false: continue. The
\* scoped_refptr goes out of scope with the only reference.
CtorInitFailed(internal) ==
  /\ pc = "ctor_init"
  /\ plugin_list_[i].is_internal = internal
  /\ ModuleDestroyed(module, "ctor")
  /\ module' = IF pc' = "aborted" THEN module ELSE NULL
  /\ i' = IF pc' = "aborted" THEN i ELSE i + 1
  /\ UNCHANGED <<environment, statics, checks, preload, accessor, plugin_list_, preloaded_modules_,
                 ext_refs, loaded, ever_preloaded, teardown_clean>>

\* The init returns true: preloaded_modules_[current.path] = module. A module
\* the map held for that path loses the map's reference.
CtorInitSucceeded(internal) ==
  /\ pc = "ctor_init"
  /\ plugin_list_[i].is_internal = internal
  /\ loaded' = loaded \cup {i}
  /\ LET path == plugin_list_[i].path
         old == MapFind(preloaded_modules_, path)
     IN /\ IF old # NULL /\ old \notin ext_refs
             THEN ModuleDestroyed(old, "ctor")
             ELSE /\ pc' = "ctor"
                  /\ UNCHANGED <<alive, live_modules_, violations, registered>>
        /\ IF pc' = "aborted"
             THEN UNCHANGED <<preloaded_modules_, ever_preloaded>>
             ELSE /\ preloaded_modules_' = MapAssign(preloaded_modules_, path, module)
                  /\ ever_preloaded' = ever_preloaded \cup {path}
  /\ module' = IF pc' = "aborted" THEN module ELSE NULL
  /\ i' = IF pc' = "aborted" THEN i ELSE i + 1
  /\ UNCHANGED <<environment, statics, checks, preload, accessor, plugin_list_, ext_refs, teardown_clean>>

\* ------------------------------------------------------- the callers

\* A registration by a caller that writes the owning map as well.
CallAddLiveModulePreloading(path, m) ==
  /\ pc = "live"
  /\ m \in ext_refs \cup NewAddresses
  /\ alive' = alive \cup {m}
  /\ ext_refs' = IF m \in alive THEN ext_refs ELSE ext_refs \cup {m}
  /\ AddLiveModule(path, m, "live")
  /\ preloaded_modules_' = MapAssign(preloaded_modules_, path, m)
  /\ UNCHANGED <<environment, statics, checks, preload, accessor, plugin_list_,
                 i, module, loaded, ever_preloaded, teardown_clean>>

\* A caller registers the module at address m under path: a module it has just
\* constructed and owns, or one it holds a reference to already.
CallAddLiveModule(path, m) ==
  /\ pc = "live"
  /\ m \in ext_refs \cup NewAddresses
  /\ alive' = alive \cup {m}
  /\ ext_refs' = IF m \in alive THEN ext_refs ELSE ext_refs \cup {m}
  /\ AddLiveModule(path, m, "live")
  /\ UNCHANGED <<environment, statics, checks, preload, accessor, plugin_list_, preloaded_modules_, i,
                 module, loaded, ever_preloaded, teardown_clean>>

\* A caller looks a module up, and keeps a reference to it when retain.
CallGetLiveModule(path, retain) ==
  /\ pc = "live"
  /\ retain => GetLiveModule(path) \in alive
  /\ ext_refs' = IF retain THEN ext_refs \cup {GetLiveModule(path)} ELSE ext_refs
  /\ UNCHANGED <<environment, statics, checks, preload, accessor, plugin_list_, preloaded_modules_,
                 live_modules_, pc, i, module, alive, violations, registered,
                 loaded, ever_preloaded, teardown_clean>>

\* The callers drop their last reference to m; m is destroyed unless the
\* preloaded map owns it too.
ReleaseModule(m) ==
  /\ pc = "live"
  /\ m \in ext_refs
  /\ ext_refs' = ext_refs \ {m}
  /\ IF m \in MapValues(preloaded_modules_)
       THEN UNCHANGED <<alive, live_modules_, pc, violations, registered>>
       ELSE ModuleDestroyed(m, "live")
  /\ UNCHANGED <<environment, statics, checks, preload, accessor, plugin_list_, preloaded_modules_, i,
                 module, loaded, ever_preloaded, teardown_clean>>

\* ----------------------------------------------------- the destructor

\* ~PepperPluginRegistry() is entered.
DtorBegin ==
  /\ pc = "live"
  /\ pc' = "dtor"
  /\ teardown_clean' = (ext_refs = {} /\ live_modules_ \subseteq preloaded_modules_)
  /\ UNCHANGED <<environment, statics, checks, preload, accessor, plugin_list_, preloaded_modules_,
                 live_modules_, i, module, alive, ext_refs, violations,
                 registered, loaded, ever_preloaded>>

\* preloaded_modules_.clear(), one element at a time: the element's
\* scoped_refptr lets its module go.
DtorClear(e) ==
  /\ pc = "dtor"
  /\ e \in preloaded_modules_
  /\ preloaded_modules_' = preloaded_modules_ \ {e}
  /\ IF e[2] \in ext_refs \/ e[2] \in MapValues(preloaded_modules_ \ {e})
       THEN UNCHANGED <<alive, live_modules_, pc, violations, registered>>
       ELSE ModuleDestroyed(e[2], "dtor")
  /\ UNCHANGED <<environment, statics, checks, preload, accessor, plugin_list_, i, module, ext_refs,
                 loaded, ever_preloaded, teardown_clean>>

\* The destructor with its DCHECK before preloaded_modules_.clear(): the map
\* is cleared as the members are destroyed.
DtorCheckBeforeClear ==
  /\ pc = "dtor"
  /\ violations' = IF live_modules_ = {} THEN violations
                   ELSE violations \cup {"~PepperPluginRegistry"}
  /\ pc' = IF live_modules_ # {} /\ dcheck_is_on THEN "aborted" ELSE "destroyed"
  /\ UNCHANGED <<environment, statics, checks, preload, accessor, plugin_list_,
                 preloaded_modules_, live_modules_, i, module, alive, ext_refs,
                 registered, loaded, ever_preloaded, teardown_clean>>

\* DCHECK(live_modules_.empty()), and the destructor returns.
DtorCheck ==
  /\ pc = "dtor"
  /\ preloaded_modules_ = {}
  /\ violations' = IF live_modules_ = {} THEN violations
                   ELSE violations \cup {"~PepperPluginRegistry"}
  /\ pc' = IF live_modules_ # {} /\ dcheck_is_on THEN "aborted" ELSE "destroyed"
  /\ UNCHANGED <<environment, statics, checks, preload, accessor, plugin_list_, preloaded_modules_,
                 live_modules_, i, module, alive, ext_refs, registered, loaded,
                 ever_preloaded, teardown_clean>>

\* ------------------------------------------------ the static methods

\* if (!plugins[i].is_internal && !plugins[i].is_out_of_process)
LoadsNativeLibrary(info) == ~info.is_internal /\ ~info.is_out_of_process

\* base::LoadNativeLibrary(path) when the loader fails on the files of
\* failing: a library, or NULL.
LoadNativeLibrary(path, failing) == path \notin failing

\* The loop of PreloadModules leaving at the first library that is NULL.
RECURSIVE NativeLibraryLoadsStoppingAtFailure(_, _)
NativeLibraryLoadsStoppingAtFailure(list, failing) ==
  IF list = <<>> THEN <<>>
  ELSE IF LoadsNativeLibrary(Head(list))
    THEN IF LoadNativeLibrary(Head(list).path, failing)
           THEN <<[path |-> Head(list).path, library |-> TRUE]>>
                  \o NativeLibraryLoadsStoppingAtFailure(Tail(list), failing)
           ELSE <<[path |-> Head(list).path, library |-> FALSE]>>
    ELSE NativeLibraryLoadsStoppingAtFailure(Tail(list), failing)

\* The loop of PreloadModules: a load for every plugin of the list that is
\* neither internal nor out of process; a NULL library is logged and the loop
\* goes on.
RECURSIVE NativeLibraryLoads(_, _)
NativeLibraryLoads(list, failing) ==
  IF list = <<>> THEN <<>>
  ELSE IF LoadsNativeLibrary(Head(list))
    THEN <<[path |-> Head(list).path,
            library |-> LoadNativeLibrary(Head(list).path, failing)]>>
           \o NativeLibraryLoads(Tail(list), failing)
    ELSE NativeLibraryLoads(Tail(list), failing)

\* The body of PreloadModules once ComputeList(&plugins) has given computed:
\* the loop over the list; the statics of ComputeBuiltInPlugins are as the
\* computation left them.
PreloadComputed(computed) ==
  /\ plugins' = computed.plugins
  /\ libraries' = NativeLibraryLoads(computed.plugins, unloadable)
  /\ skip_pdf_file_check' = computed.skip_pdf_file_check
  /\ skip_nacl_file_check' = computed.skip_nacl_file_check
  /\ path_exists_calls' = computed.path_exists_calls
  /\ found_present' = found_present \cup (computed.path_exists_calls \cap exists)

\* PepperPluginRegistry::PreloadModules(): ComputeList into a vector of its
\* own, and a library load for every plugin of it that is neither internal nor
\* out of process. It is static: it reads and writes no registry.
PreloadModules ==
  /\ PreloadComputed(ComputeList(<<>>, skip_pdf_file_check,
                                 skip_nacl_file_check, exists, cl))
  /\ UNCHANGED <<environment, accessor, plugin_list_, preloaded_modules_,
                 live_modules_, pc, i, module, alive, ext_refs, violations,
                 registered, loaded, ever_preloaded, teardown_clean>>

\* The file at path goes away, or can no longer be seen once the process is
\* sandboxed.
PathRemoved(path) ==
  /\ path \in exists
  /\ exists' = exists \ {path}
  /\ UNCHANGED <<cl, unloadable, dcheck_is_on, statics, checks, preload, accessor,
                 plugin_list_, preloaded_modules_, live_modules_, pc, i, module,
                 alive, ext_refs, violations, registered, loaded,
                 ever_preloaded, teardown_clean>>

\* The file at path is installed.
PathCreated(path) ==
  /\ path \notin exists
  /\ exists' = exists \cup {path}
  /\ UNCHANGED <<cl, unloadable, dcheck_is_on, statics, checks, preload, accessor,
                 plugin_list_, preloaded_modules_, live_modules_, pc, i, module,
                 alive, ext_refs, violations, registered, loaded,
                 ever_preloaded, teardown_clean>>

Next ==
  \/ GetInstance
  \/ GetInstanceAgain
  \/ CtorReturn
  \/ CtorSkipOutOfProcess
  \/ \E m \in ModuleIds : CtorNewModule(m)
  \/ \E internal \in BOOLEAN : CtorInitFailed(internal)
  \/ \E internal \in BOOLEAN : CtorInitSucceeded(internal)
  \/ \E path \in ExternalPaths, m \in ModuleIds : CallAddLiveModule(path, m)
  \/ \E path \in ExternalPaths, retain \in BOOLEAN : CallGetLiveModule(path, retain)
  \/ \E m \in ModuleIds : ReleaseModule(m)
  \/ DtorBegin
  \/ \E e \in preloaded_modules_ : DtorClear(e)
  \/ DtorCheck

Spec == Init /\ [][Next]_vars

SpecHistory == InitHistory /\ [][Next]_vars

\* The life of the registry with GetInstance its only caller: construction,
\* the calls of GetInstance that follow, and the destructor.
NextAccessor ==
  \/ GetInstance
  \/ GetInstanceAgain
  \/ CtorReturn
  \/ CtorSkipOutOfProcess
  \/ \E m \in ModuleIds : CtorNewModule(m)
  \/ \E internal \in BOOLEAN : CtorInitFailed(internal)
  \/ \E internal \in BOOLEAN : CtorInitSucceeded(internal)
  \/ DtorBegin
  \/ \E e \in preloaded_modules_ : DtorClear(e)
  \/ DtorCheck

SpecAccessor == InitAccessor /\ [][NextAccessor]_vars

\* PreloadModules called before the registry is made, while its constructor
\* runs and after it.
NextPreload ==
  \/ PreloadModules
  \/ GetInstance
  \/ CtorReturn
  \/ CtorSkipOutOfProcess
  \/ \E m \in ModuleIds : CtorNewModule(m)
  \/ \E internal \in BOOLEAN : CtorInitFailed(internal)
  \/ \E internal \in BOOLEAN : CtorInitSucceeded(internal)

SpecPreload == InitPreload /\ [][NextPreload]_vars

\* The descriptor parser by itself: PreloadModules computing the list of
\* every command line of ParserCommandLines.
NextParser == PreloadModules

SpecParser == InitParser /\ [][NextParser]_vars

\* The descriptor list computed again and again while the files of the
\* built-in plugins come and go.
NextDiscovery ==
  \/ PreloadModules
  \/ \E path \in {FILE_PDF_PLUGIN, FILE_NACL_PLUGIN} : PathRemoved(path)
  \/ \E path \in {FILE_PDF_PLUGIN, FILE_NACL_PLUGIN} : PathCreated(path)

SpecDiscovery == Init /\ [][NextDiscovery]_vars

\* ------------------------------------------------------- properties

\* The constructor is running, or was when the process aborted.
InConstructor ==
  pc \in {"ctor", "ctor_init"} \/ (pc = "aborted" /\ i <= Len(plugin_list_))

\* C1: in every reachable state the live map holds at most one module for
\* any path.
C1_OneLiveModulePerPath ==
  \A e, f \in live_modules_ : e[1] = f[1] => e = f

\* A path was registered a second time in a build that goes on after the
\* DCHECK, and the live map holds a module.
C1_Witness ==
  /\ ~dcheck_is_on
  /\ "AddLiveModule" \in violations
  /\ live_modules_ # {}

\* C2: a call of AddLiveModule for a path the live map has an entry for, by a
\* caller or by the constructor, violates the DCHECK of AddLiveModule, and a
\* debug build aborts there.
C2_DuplicateRegistrationAsserts ==
  [][/\ \A path \in ExternalPaths :
          (pc = "live" /\ MapHas(live_modules_, path)) =>
            \A m \in ModuleIds :
              CallAddLiveModule(path, m)
                => /\ "AddLiveModule" \in violations'
                   /\ dcheck_is_on => pc' = "aborted"
     /\ (/\ pc = "ctor"
         /\ i <= Len(plugin_list_)
         /\ MapHas(live_modules_, plugin_list_[i].path)) =>
          \A m \in ModuleIds :
            CtorNewModule(m)
              => /\ "AddLiveModule" \in violations'
                 /\ dcheck_is_on => pc' = "aborted"]_vars

\* A caller registered a path twice: no descriptor was declared, so the
\* constructor registered nothing.
C2_Witness ==
  /\ plugin_list_ = <<>>
  /\ "AddLiveModule" \in violations
  /\ pc \in {"live", "aborted"}

\* C3: whatever the command line and the files, the constructor reaches no
\* assertion with its condition false: neither the DCHECK of AddLiveModule nor
\* the NOTREACHED of PluginModuleDead.
C3_ConstructionViolatesNoAssertion ==
  InConstructor => violations = {}

C5_FailedLoadLeavesNoEntry ==
  [][/\ \A internal \in BOOLEAN :
          CtorInitFailed(internal) =>
            /\ module \notin MapValues(live_modules_')
            /\ module \notin MapValues(preloaded_modules_')
     /\ CtorReturn => live_modules_ \subseteq preloaded_modules_]_vars

\* The constructor has returned, and a descriptor that is not out of process
\* has failed its init and has no entry in either map.
C5_Witness ==
  /\ pc = "live"
  /\ \E k \in 1..Len(plugin_list_) :
       /\ ~plugin_list_[k].is_out_of_process
       /\ k \notin loaded
       /\ ~MapHas(live_modules_, plugin_list_[k].path)
       /\ ~MapHas(preloaded_modules_, plugin_list_[k].path)

\* C6: when the constructor returns, every descriptor whose init succeeded has
\* its path in the preloaded map and in the live map, whatever the other
\* descriptors' inits did.
C6_LoadedPluginsArePresent ==
  (pc = "ctor" /\ i > Len(plugin_list_)) =>
    \A k \in loaded :
      /\ MapHas(preloaded_modules_, plugin_list_[k].path)
      /\ MapHas(live_modules_, plugin_list_[k].path)

\* The paths of the descriptor list.
ListedPaths == {plugin_list_[k].path : k \in 1..Len(plugin_list_)}

\* C7: the descriptor list is what ComputeList gave the constructor and no
\* later step changes it, a failed init included; GetInfoForPlugin finds a
\* descriptor of that path for every path of the list.
C7_FailedDescriptorStaysListed ==
  [][/\ GetInstance =>
          plugin_list_' = ComputeList(<<>>, skip_pdf_file_check,
                                      skip_nacl_file_check, exists, cl).plugins
     /\ pc # "start" => plugin_list_' = plugin_list_
     /\ \A k \in 1..Len(plugin_list_') :
          LET r == InfoIndexFrom(plugin_list_', plugin_list_'[k].path, 1)
          IN r # 0 /\ plugin_list_'[r].path = plugin_list_'[k].path]_vars

\* The constructor has returned; a descriptor's init failed, no module is
\* preloaded for its path, and GetInfoForPlugin still finds it.
C7_Witness ==
  /\ pc = "live"
  /\ \E k \in 1..Len(plugin_list_) :
       /\ ~plugin_list_[k].is_out_of_process
       /\ k \notin loaded
       /\ ~MapHas(preloaded_modules_, plugin_list_[k].path)
       /\ GetInfoForPlugin(plugin_list_[k].path) = k

\* The descriptors ComputeBuiltInPlugins makes.
BuiltInPluginInfos == {PdfPluginInfo, NaClPluginInfo, RemotingPluginInfo}

\* C8: GetInfoForPlugin(p) gives the descriptor of the lowest index whose path
\* is p, and NULL exactly when no descriptor has path p; when a built-in
\* descriptor has path p, the descriptor it gives is a built-in one.
C8_FirstMatchBuiltInFirst ==
  \A p \in ListedPaths \cup ExternalPaths \cup {<<"y">>} :
    LET r == GetInfoForPlugin(p)
        matches == {k \in 1..Len(plugin_list_) : plugin_list_[k].path = p}
    IN /\ r = 0 <=> matches = {}
       /\ matches # {} => r \in matches /\ \A k \in matches : r <= k
       /\ (\E k \in matches : plugin_list_[k] \in BuiltInPluginInfos)
            => plugin_list_[r] \in BuiltInPluginInfos

\* The built-in PDF plugin and an entry of the command line have the same
\* path, and the lookup gives the built-in one.
C8_Witness ==
  /\ Len(plugin_list_) >= 2
  /\ plugin_list_[1] = PdfPluginInfo
  /\ plugin_list_[2].path = FILE_PDF_PLUGIN
  /\ plugin_list_[2] \notin BuiltInPluginInfos
  /\ GetInfoForPlugin(FILE_PDF_PLUGIN) = 1

\* The paths of the descriptors that are not out of process.
InProcessPaths ==
  {plugin_list_[k].path :
     k \in {n \in 1..Len(plugin_list_) : ~plugin_list_[n].is_out_of_process}}

\* C9: every key of the preloaded map is the path of a descriptor that is not
\* out of process; while the constructor runs the same holds of the live map,
\* every module there is was made for such a descriptor, and the descriptor a
\* module is being initialised for is not out of process.
C9_NoModuleForOutOfProcess ==
  /\ MapKeys(preloaded_modules_) \subseteq InProcessPaths
  /\ pc \in {"ctor", "ctor_init"} =>
       /\ MapKeys(live_modules_) \subseteq InProcessPaths
       /\ InProcessPaths = {} => alive = {}
  /\ pc = "ctor_init" => ~plugin_list_[i].is_out_of_process

\* The constructor has returned; a module is preloaded, and a descriptor that
\* is out of process has none.
C9_Witness ==
  /\ pc = "live"
  /\ ext_refs = {}
  /\ preloaded_modules_ # {}
  /\ live_modules_ = preloaded_modules_
  /\ \E k \in 1..Len(plugin_list_) :
       /\ plugin_list_[k].is_out_of_process
       /\ ~MapHas(preloaded_modules_, plugin_list_[k].path)

\* C10: GetLiveModule(p) gives m exactly when m was registered under p, by the
\* constructor or by a caller, and has not died since, and NULL when there is
\* no such module. It is stated of the states no assertion has been violated
\* before, where no caller has broken the DCHECK of AddLiveModule.
C10_LookupFollowsRegistrations ==
  (pc = "live" /\ violations = {}) =>
    \A p \in ListedPaths \cup ExternalPaths :
      /\ \A m \in ModuleIds : GetLiveModule(p) = m <=> <<p, m>> \in registered
      /\ GetLiveModule(p) = NULL <=> ~MapHas(registered, p)

\* C11: a step in which a module m is destroyed, and so PluginModuleDead(m) is
\* called, removes one entry of the live map, an entry whose value is m, and
\* leaves every other entry as it was; when no entry has the value m it
\* violates the NOTREACHED of PluginModuleDead and leaves the live map as it
\* was.
C11_DeadModuleLosesItsEntryOnly ==
  [][\A m \in alive \ alive' :
       IF m \in MapValues(live_modules_)
         THEN /\ \E e \in live_modules_ :
                   e[2] = m /\ live_modules_' = live_modules_ \ {e}
              /\ violations' = violations
         ELSE /\ live_modules_' = live_modules_
              /\ "PluginModuleDead" \in violations']_vars

\* The module at the first address has died and its entry is gone, the entry
\* of the module at the second address is where it was, and no assertion was
\* violated on the way.
C11_Witness ==
  /\ pc = "live"
  /\ violations = {}
  /\ alive = {2}
  /\ 1 \notin MapValues(live_modules_)
  /\ 2 \in MapValues(live_modules_)

\* ------------------------------------ the grammar of the command line

\* The places of the delimiter d in s.
Cuts(s, d) == {k \in 1..Len(s) : s[k] = d}

\* The n-th number of the set S of numbers, counted from the least.
NthOf(S, n) == CHOOSE k \in S : Cardinality({j \in S : j < k}) = n - 1

\* The d-delimited pieces of s, one more than s has delimiters.
Delimited(s, d) ==
  LET c == Cuts(s, d)
  IN [n \in 1..(Cardinality(c) + 1) |->
        SubSeq(s, NthOf(c \cup {0}, n) + 1, NthOf(c \cup {Len(s) + 1}, n) - 1)]

\* s without the linear white space (LWS) around it.
Stripped(s) ==
  LET ks == {k \in 1..Len(s) : s[k] \notin kWhitespace}
  IN IF ks = {} THEN <<>>
     ELSE SubSeq(s, CHOOSE k \in ks : \A j \in ks : k <= j,
                    CHOOSE k \in ks : \A j \in ks : j <= k)

\* The plugin entries of the value of --register-pepper-plugins: none when
\* the switch has no value.
Entries(value) == IF value = <<>> THEN <<>> ELSE Delimited(value, ",")

\* The entry has a mime type: two ';'-delimited parts or more.
HasMimeType(entry) == Len(Delimited(entry, ";")) >= 2

AcceptedEntries(value) == SelectSeq(Entries(value), HasMimeType)

\* The field of the entry's file-and-name part at place n, <<>> when the part
\* has fewer fields.
FieldOf(entry, n) ==
  LET fields == Delimited(Delimited(entry, ";")[1], "#")
  IN IF n <= Len(fields) THEN Stripped(fields[n]) ELSE <<>>

\* The descriptor is the Pepper Flash one; it is one made for an entry of
\* --register-pepper-plugins.
IsFlashInfo(info) == info.name = kFlashPluginName

IsFromEntry(info) == info \notin BuiltInPluginInfos /\ ~IsFlashInfo(info)

FromEntries(list) == SelectSeq(list, IsFromEntry)

\* C12: the descriptors a computation of the list makes for the value of
\* --register-pepper-plugins are one for each comma-separated entry with two
\* ';'-delimited parts or more, in the order of the entries, and none for an
\* entry with fewer; the descriptor of an entry is the one the entry gives
\* when it is the whole value, whatever entries were rejected before it, and
\* it has a mime type.
C12_RejectedEntriesAreSkipped ==
  [][PreloadModules =>
       LET got == FromEntries(plugins')
           accepted == AcceptedEntries(cl.value)
       IN /\ Len(got) = Len(accepted)
          /\ \A k \in 1..Len(got) :
               /\ got[k].path = FieldOf(accepted[k], 1)
               /\ <<got[k]>> = ComputePluginsFromCommandLine(<<>>,
                     [cl EXCEPT !.value = accepted[k], !.flash_path = <<>>])
               /\ Len(got[k].mime_types) >= 1]_vars

\* The list was computed for "x,p;m": the entry with no mime type comes first
\* and the list has the descriptor of the entry after it.
C12_Witness ==
  /\ cl.value = <<"x", ",", "p", ";", "m">>
  /\ Len(FromEntries(plugins)) = 1
  /\ FromEntries(plugins)[1].path = <<"p">>

\* C13: the descriptor of an accepted entry has the first '#'-delimited field
\* of the entry's first ';' part for its path and the second, third and fourth
\* field, where there is one, for its name, description and version, the
\* empty string where there is none; it has one mime type for each later ';'
\* part, in their order, each with the descriptor's description and no file
\* extension. Fields and parts are taken without the white space around them.
C13_FieldsOfAnEntry ==
  [][PreloadModules =>
       LET got == FromEntries(plugins')
           accepted == AcceptedEntries(cl.value)
       IN /\ Len(got) = Len(accepted)
          /\ \A k \in 1..Len(got) :
               LET parts == Delimited(accepted[k], ";")
               IN /\ got[k].path = FieldOf(accepted[k], 1)
                  /\ got[k].name = FieldOf(accepted[k], 2)
                  /\ got[k].description = FieldOf(accepted[k], 3)
                  /\ got[k].version = FieldOf(accepted[k], 4)
                  /\ Len(got[k].mime_types) = Len(parts) - 1
                  /\ \A j \in 1..(Len(parts) - 1) :
                       got[k].mime_types[j] =
                         WebPluginMimeType(Stripped(parts[j + 1]), <<>>,
                                           FieldOf(accepted[k], 3))]_vars

\* The list was computed for "a##a#a#a;m;n ": five fields of which the second
\* is empty, and two mime types.
C13_Witness ==
  /\ cl.value = <<"a", "#", "#", "a", "#", "a", "#", "a", ";", "m", ";", "n", " ">>
  /\ Len(FromEntries(plugins)) = 1
  /\ FromEntries(plugins)[1].name = <<>>
  /\ FromEntries(plugins)[1].version = <<"a">>
  /\ Len(FromEntries(plugins)[1].mime_types) = 2

\* The descriptors of the list that are Pepper Flash ones.
FlashInfos(list) == SelectSeq(list, IsFlashInfo)

Digits == {"0", "1", "2", "3", "4", "5", "6", "7", "8", "9"}

\* A version component that is a number: one digit or more, and digits only.
IsNumeric(component) ==
  component # <<>> /\ \A k \in 1..Len(component) : component[k] \in Digits

\* The components the Pepper Flash version has when one is missing or empty.
FlashVersionDefaults == <<<<"1", "0">>, <<"2">>, <<"9", "9", "9">>, <<"9", "9", "9">>>>

\* C14: the version of the Pepper Flash descriptor has four '.'-delimited
\* components, each a number: the component --ppapi-flash-version has at that
\* place, and the default of the place (10, 2, 999, 999) when the switch has no
\* component there or an empty one.
C14_FlashVersionHasFourNumbers ==
  [][PreloadModules =>
       \A n \in 1..Len(FlashInfos(plugins')) :
         LET version == Delimited(FlashInfos(plugins')[n].version, ".")
             given == Delimited(cl.flash_version, ".")
         IN /\ Len(version) = 4
            /\ \A k \in 1..Len(version) :
                 /\ IsNumeric(version[k])
                 /\ k <= 4 =>
                      version[k] = IF k <= Len(given) /\ given[k] # <<>>
                                     THEN given[k]
                                     ELSE FlashVersionDefaults[k]]_vars

\* C16: in a computed list no built-in descriptor comes after a descriptor of
\* the command line, and no Pepper Flash descriptor after the descriptor of an
\* entry of --register-pepper-plugins; there is a Pepper Flash descriptor
\* exactly when --ppapi-flash-path has a value, and the descriptors of the
\* entries have the paths of the accepted entries, in the entries' order.
C16_BuiltInsThenFlashThenEntries ==
  [][PreloadModules =>
       /\ \A j, k \in 1..Len(plugins') :
            j < k =>
              /\ plugins'[k] \in BuiltInPluginInfos
                   => plugins'[j] \in BuiltInPluginInfos
              /\ IsFlashInfo(plugins'[k]) => ~IsFromEntry(plugins'[j])
       /\ Len(FlashInfos(plugins')) = IF cl.flash_path # <<>> THEN 1 ELSE 0
       /\ \A n \in 1..Len(FlashInfos(plugins')) :
            FlashInfos(plugins')[n].path = cl.flash_path
       /\ Len(FromEntries(plugins')) = Len(AcceptedEntries(cl.value))
       /\ \A n \in 1..Len(FromEntries(plugins')) :
            FromEntries(plugins')[n].path = FieldOf(AcceptedEntries(cl.value)[n], 1)]_vars

\* The computed list has the built-in PDF plugin, then the Pepper Flash
\* plugin, then the plugin of an entry of --register-pepper-plugins.
C16_Witness ==
  /\ Len(plugins) = 3
  /\ plugins[1] = PdfPluginInfo
  /\ IsFlashInfo(plugins[2])
  /\ IsFromEntry(plugins[3])

\* C19: the description of the Pepper Flash descriptor is the plugin's name,
\* a space, the first component of the descriptor's version, a dot, the
\* second component, " r" and the third component; for an empty
\* --ppapi-flash-version it is "Shockwave Flash 10.2 r999".
C19_FlashDescription ==
  [][PreloadModules =>
       \A n \in 1..Len(FlashInfos(plugins')) :
         LET flash == FlashInfos(plugins')[n]
             version == Delimited(flash.version, ".")
         IN /\ Len(version) >= 3
            /\ flash.description =
                 flash.name \o <<" ">> \o version[1] \o <<".">> \o version[2]
                   \o <<" r">> \o version[3]
            /\ flash.name = kFlashPluginName
            /\ cl.flash_version = <<>> =>
                 flash.description =
                   <<"Shockwave Flash", " ", "1", "0", ".", "2", " r", "9", "9", "9">>]_vars

\* The list was computed for --ppapi-flash-version=11.5.5: the description
\* is "Shockwave Flash 11.5 r5".
C19_Witness ==
  /\ cl.flash_version = <<"1", "1", ".", "5", ".", "5">>
  /\ FlashInfos(plugins) # <<>>
  /\ FlashInfos(plugins)[1].description =
       <<"Shockwave Flash", " ", "1", "1", ".", "5", " r", "5">>

\* The descriptor of the built-in plugin whose file is at path.
BuiltInAt(path) ==
  IF path = FILE_PDF_PLUGIN THEN PdfPluginInfo ELSE NaClPluginInfo

\* C15: a computation of the list made after file_util::PathExists has
\* returned true for the file of a built-in plugin does not call
\* file_util::PathExists for that file and has the plugin in its list,
\* whether the file is still there or not; so from the call that found the
\* file on, that call is the only one made for it.
C15_PresenceIsCached ==
  [][PreloadModules =>
       \A path \in found_present :
         /\ path \notin path_exists_calls'
         /\ \E k \in 1..Len(plugins') : plugins'[k] = BuiltInAt(path)]_vars

\* The PDF plugin's file was found and is gone; the last computation looked
\* for the NaCl plugin's file only, and its list has the PDF plugin.
C15_Witness ==
  /\ FILE_PDF_PLUGIN \in found_present
  /\ FILE_PDF_PLUGIN \notin exists
  /\ path_exists_calls = {FILE_NACL_PLUGIN}
  /\ \E k \in 1..Len(plugins) : plugins[k] = PdfPluginInfo

\* C17: a registration by a caller and the death of a caller's module leave
\* the descriptor list and the preloaded map as they were, that is, a step
\* that changes either is neither of the two; once the constructor has
\* computed it the descriptor list does not change, and once the constructor
\* has returned the preloaded map changes in the destructor only.
C17_OnlyTheLiveMapChanges ==
  [][/\ (plugin_list_' # plugin_list_
           \/ preloaded_modules_' # preloaded_modules_) =>
          /\ \A path \in ExternalPaths, m \in ModuleIds :
               ~CallAddLiveModule(path, m)
          /\ \A m \in ModuleIds : ~ReleaseModule(m)
     /\ pc # "start" => plugin_list_' = plugin_list_
     /\ (registry # NULL /\ preloaded_modules_' # preloaded_modules_)
          => /\ pc = "dtor"
             /\ preloaded_modules_' \subseteq preloaded_modules_]_vars

\* The constructor has preloaded a module, a caller has registered a module
\* of its own, and a module made before one that is still alive has died.
C17_Witness ==
  /\ pc = "live"
  /\ preloaded_modules_ # {}
  /\ \E e \in live_modules_ : e \notin preloaded_modules_
  /\ \E m \in ModuleIds \ alive : \E n \in alive : m < n

\* C18: the first call of GetInstance constructs the registry, and no
\* registry is constructed after it: the static pointer, once set, stays what
\* it is, and a later call returns it and leaves the descriptor list, the
\* statics of the discovery and both maps as they are; the destructor is
\* entered by no step of GetInstance.
C18_OneRegistryPerProcess ==
  [][/\ instances' <= 1
     /\ GetInstance => instances = 0 /\ instances' = 1
     /\ registry # NULL => registry' = registry
     /\ registry' # NULL => registry' = 1
     /\ returned' \subseteq {<<registry'>>} \ {<<NULL>>}
     /\ (GetInstance \/ GetInstanceAgain) => pc' \notin {"dtor", "destroyed"}
     /\ GetInstanceAgain =>
          /\ returned' = {<<registry>>}
          /\ UNCHANGED <<plugin_list_, statics, checks, preloaded_modules_,
                         live_modules_, alive, pc>>]_vars

\* GetInstance was called again after the registry was constructed with a
\* preloaded module, and returned the registry.
C18_Witness ==
  /\ pc = "live"
  /\ instances = 1
  /\ returned = {<<registry>>}
  /\ registry # NULL
  /\ preloaded_modules_ # {}

\* C20: when the constructor is about to initialise a module, the live map
\* has the module under the descriptor's path, and the descriptor is not out
\* of process; a failed init destroys the module, whose PluginModuleDead finds
\* the entry, violates no assertion and leaves no entry for the module; the
\* constructor writes the preloaded map only in the step of a successful init,
\* and what it writes is the module just initialised under its descriptor's
\* path.
C20_RegisteredBeforeLoaded ==
  [][/\ pc' = "ctor_init" =>
          /\ <<plugin_list_'[i'].path, module'>> \in live_modules_'
          /\ ~plugin_list_'[i'].is_out_of_process
          /\ ~MapHas(preloaded_modules_', plugin_list_'[i'].path)
               \/ MapFind(preloaded_modules_', plugin_list_'[i'].path) # module'
     /\ \A internal \in BOOLEAN :
          CtorInitFailed(internal) =>
            /\ module \in MapValues(live_modules_)
            /\ violations' = violations
            /\ module \notin MapValues(live_modules_')
            /\ preloaded_modules_' = preloaded_modules_
     /\ (registry = NULL /\ preloaded_modules_' # preloaded_modules_) =>
          /\ \E internal \in BOOLEAN : CtorInitSucceeded(internal)
          /\ preloaded_modules_' \ preloaded_modules_
               = {<<plugin_list_[i].path, module>>}]_vars

\* The first descriptor's module was registered and its init failed: the
\* module is destroyed, the live map is empty again, no assertion was violated
\* and the constructor is at the second descriptor.
C20_Witness ==
  /\ pc = "ctor"
  /\ i = 2
  /\ ~plugin_list_[1].is_out_of_process
  /\ 1 \notin loaded
  /\ alive = {}
  /\ live_modules_ = {}
  /\ violations = {}

\* C21: in the destructor the live map changes only in a step that takes an
\* element out of the preloaded map, the step in which that element's module
\* dies and PluginModuleDead runs, and the registry is still there in that
\* step; the step that evaluates DCHECK(live_modules_.empty()), the one step
\* of the destructor that leaves the preloaded map as it is, is taken when the
\* preloaded map is empty and every module it alone owned has died.
C21_TeardownIsOrdered ==
  [][pc = "dtor" =>
       /\ live_modules_' # live_modules_ =>
            /\ preloaded_modules_' # preloaded_modules_
            /\ preloaded_modules_' \subseteq preloaded_modules_
            /\ alive' # alive
       /\ alive' # alive => pc' \in {"dtor", "aborted"}
       /\ preloaded_modules_' = preloaded_modules_ =>
            /\ preloaded_modules_ = {}
            /\ alive \subseteq ext_refs
            /\ pc' \in {"destroyed", "aborted"}
            /\ live_modules_' = live_modules_
       /\ pc' = "destroyed" =>
            ("~PepperPluginRegistry" \in violations') = (live_modules_ # {})]_vars

\* The destructor has run after two modules were preloaded: both have died,
\* and no assertion was violated.
C21_Witness ==
  /\ pc = "destroyed"
  /\ Cardinality(ever_preloaded) = 2
  /\ alive = {}
  /\ violations = {}

\* C22: from the end of construction until the destructor begins the
\* preloaded map is a sub-map of the live map: each of its paths is in the
\* live map with the same module.
C22_PreloadedIsSubMapOfLive ==
  pc = "live" => preloaded_modules_ \subseteq live_modules_

\* C23: when a module has died and PluginModuleDead has returned, no entry of
\* the live map holds the dead module, under any path.
C23_DeadModuleIsInNoEntry ==
  [][alive' # alive =>
       \A m \in alive \ alive' : m \notin MapValues(live_modules_')]_vars

\* C24: a path is registrable again after its module died: the death of a
\* module registered under one path takes the path out of the live map, and
\* AddLiveModule of a path that is not in the live map violates no assertion
\* and makes GetLiveModule of the path return the module just registered.
C24_PathIsRegistrableAgain ==
  [][pc = "live" =>
       /\ alive' # alive =>
            \A m \in alive \ alive' : \A e \in live_modules_ :
              (e[2] = m /\ \A f \in live_modules_ : f[2] = m => f = e)
                => ~MapHas(live_modules_', e[1])
       /\ \A path \in ExternalPaths : \A m \in ModuleIds :
            (~MapHas(live_modules_, path) /\ CallAddLiveModule(path, m))
              => /\ violations' = violations
                 /\ pc' = "live"
                 /\ GetLiveModule(path)' = m]_vars

\* The callers registered module 1, it died, and both paths are registered
\* to module 2 with no assertion violated: one of the paths was module 1's.
C24_Witness ==
  /\ pc = "live"
  /\ plugin_list_ = <<>>
  /\ alive = {2}
  /\ live_modules_ = {<<FILE_PDF_PLUGIN, 2>>, <<<<"x">>, 2>>}
  /\ violations = {}

\* C25: every descriptor of the registry's list that is not a built-in one,
\* the Flash descriptor and the descriptors of the entries of
\* --register-pepper-plugins, has is_out_of_process equal to
\* --ppapi-out-of-process, and every built-in descriptor has it false; the
\* constructor, reaching a built-in descriptor, makes a module for it and goes
\* on to initialise it, whatever the flag.
C25_FlagIsProcessWide ==
  [][/\ \A k \in 1..Len(plugin_list_') :
          plugin_list_'[k].is_out_of_process =
            (plugin_list_'[k] \notin BuiltInPluginInfos /\ cl.out_of_process)
     /\ (pc = "ctor" /\ i <= Len(plugin_list_)) =>
          (plugin_list_[i] \in BuiltInPluginInfos =>
             /\ pc' = "ctor_init"
             /\ module' \in alive'
             /\ MapFind(live_modules_', plugin_list_[i].path) = module')]_vars

\* With --ppapi-out-of-process the registry is constructed: the PDF plugin is
\* preloaded and the Flash descriptor is out of process and has no module.
C25_Witness ==
  /\ pc = "live"
  /\ cl.out_of_process
  /\ MapHas(preloaded_modules_, FILE_PDF_PLUGIN)
  /\ \E k \in 1..Len(plugin_list_) :
       /\ IsFlashInfo(plugin_list_[k])
       /\ plugin_list_[k].is_out_of_process
       /\ ~MapHas(live_modules_, plugin_list_[k].path)

\* C26: a computation of the list made while file_util::PathExists has never
\* returned true for the file of a built-in plugin calls it for that file
\* again, leaves the plugin out when the file is not there, and has the plugin
\* in its list when the file is there, which is then the first time the file
\* was found.
C26_AbsenceIsNotCached ==
  [][PreloadModules =>
       \A path \in {FILE_PDF_PLUGIN, FILE_NACL_PLUGIN} \ found_present :
         /\ path \in path_exists_calls'
         /\ (path \in exists) =
              (\E k \in 1..Len(plugins') : plugins'[k] = BuiltInAt(path))
         /\ (path \in exists) = (path \in found_present')]_vars

\* The PDF plugin's file was found by an earlier computation; the last one
\* looked for the NaCl plugin's file alone, did not find it and left the NaCl
\* plugin out of its list.
C26_Witness ==
  /\ FILE_PDF_PLUGIN \in found_present
  /\ FILE_NACL_PLUGIN \notin found_present
  /\ FILE_NACL_PLUGIN \notin exists
  /\ path_exists_calls = {FILE_NACL_PLUGIN}
  /\ \A k \in 1..Len(plugins) : plugins[k] # NaClPluginInfo

\* The test of PreloadModules' loop, on a descriptor.
IsLoadedAsLibrary(info) == info.is_internal = FALSE /\ info.is_out_of_process = FALSE

\* C27: PreloadModules computes the list afresh and asks for one library load
\* for each descriptor of it that is neither internal nor out of process, in
\* the order of the list and whether the loads before it gave a library or
\* not, and for no other descriptor; it leaves the registry's live map,
\* preloaded map and descriptor list as they were.
C27_PreloadModulesLoadsAndLeavesTheMaps ==
  [][PreloadModules =>
       LET attempted == SelectSeq(plugins', IsLoadedAsLibrary)
       IN /\ plugins' = ComputeList(<<>>, skip_pdf_file_check,
                                    skip_nacl_file_check, exists, cl).plugins
          /\ Len(libraries') = Len(attempted)
          /\ \A k \in 1..Len(attempted) :
               /\ libraries'[k].path = attempted[k].path
               /\ libraries'[k].library = (attempted[k].path \notin unloadable)
          /\ live_modules_' = live_modules_
          /\ preloaded_modules_' = preloaded_modules_
          /\ plugin_list_' = plugin_list_
          /\ pc' = pc]_vars

\* The registry is constructed and has a preloaded module; PreloadModules
\* was called, its first load gave no library and its second load gave one.
C27_Witness ==
  /\ pc = "live"
  /\ preloaded_modules_ # {}
  /\ Len(libraries) = 2
  /\ ~libraries[1].library
  /\ libraries[2].library

\* C28: the computation of the list is defined for every command line, the
\* empty value, empty entries, an entry beginning with ';' and a value ending
\* in ',' among them, and for every Pepper Flash path and version: each has a
\* step of PreloadModules, and the list it gives has at most one descriptor for each
\* comma-separated entry of the value, at most one Pepper Flash descriptor,
\* none without --ppapi-flash-path, and nothing else but the built-in plugins.
C28_ParserGivesAListForEveryInput ==
  [][PreloadModules =>
       /\ Len(FromEntries(plugins')) <= Len(Entries(cl.value))
       /\ Len(FlashInfos(plugins')) <= (IF cl.flash_path = <<>> THEN 0 ELSE 1)
       /\ Len(plugins') <= Cardinality(BuiltInPluginInfos)
                             + Len(FlashInfos(plugins'))
                             + Len(FromEntries(plugins'))]_vars

\* The list was computed for ";m,": the entry that begins with ';' gave the
\* one descriptor, of the empty path, and the empty entry after the ',' none.
C28_Witness ==
  /\ cl.value = <<";", "m", ",">>
  /\ Len(FromEntries(plugins)) = 1
  /\ FromEntries(plugins)[1].path = <<>>
  /\ FromEntries(plugins)[1].mime_types # <<>>

====
